---- MODULE Spec2Model ----
(***************************************************************************)
(* Inbound-email ingestion of channelsignal: handleInboundEmail and the    *)
(* parser functions it uses (src/lib/ingestion/handler.ts), run by several *)
(* concurrent webhook deliveries against one relational store.             *)
(*                                                                         *)
(* Strings are TLA+ strings; a character is a string of length one.        *)
(* null is modelled by the value Null.                                     *)
(***************************************************************************)
EXTENDS Integers, Sequences, FiniteSets, TLC

Null == "<null>"

(***************************************************************************)
(* JavaScript string primitives used by the parser.                        *)
(***************************************************************************)
Char(s, i) == SubSeq(s, i, i)

UpperChars == "ABCDEFGHIJKLMNOPQRSTUVWXYZ"
LowerChars == "abcdefghijklmnopqrstuvwxyz"
DigitChars == "0123456789"

IsIn(c, chars) == \E i \in 1..Len(chars) : Char(chars, i) = c

LowerOf(c) ==
  IF IsIn(c, UpperChars)
    THEN Char(LowerChars, CHOOSE i \in 1..Len(UpperChars) : Char(UpperChars, i) = c)
    ELSE c

UpperOf(c) ==
  IF IsIn(c, LowerChars)
    THEN Char(UpperChars, CHOOSE i \in 1..Len(LowerChars) : Char(LowerChars, i) = c)
    ELSE c

RECURSIVE toLowerCase(_)
toLowerCase(s) ==
  IF Len(s) = 0 THEN "" ELSE LowerOf(Char(s, 1)) \o toLowerCase(SubSeq(s, 2, Len(s)))

\* \s of a regular expression, and the white space String.prototype.trim removes
IsSpace(c) == c = " "

RECURSIVE trimStart(_)
trimStart(s) ==
  IF Len(s) > 0 /\ IsSpace(Char(s, 1)) THEN trimStart(SubSeq(s, 2, Len(s))) ELSE s

RECURSIVE trimEnd(_)
trimEnd(s) ==
  IF Len(s) > 0 /\ IsSpace(Char(s, Len(s))) THEN trimEnd(SubSeq(s, 1, Len(s) - 1)) ELSE s

trim(s) == trimEnd(trimStart(s))

startsWith(s, prefix) ==
  Len(s) >= Len(prefix) /\ SubSeq(s, 1, Len(prefix)) = prefix

endsWith(s, suffix) ==
  Len(s) >= Len(suffix) /\ SubSeq(s, Len(s) - Len(suffix) + 1, Len(s)) = suffix

includes(s, part) ==
  \E i \in 1..(Len(s) - Len(part) + 1) : SubSeq(s, i, i + Len(part) - 1) = part

\* the number of occurrences of the character c in s
RECURSIVE CountChar(_, _)
CountChar(s, c) ==
  IF Len(s) = 0 THEN 0
  ELSE (IF Char(s, 1) = c THEN 1 ELSE 0) + CountChar(SubSeq(s, 2, Len(s)), c)

(***************************************************************************)
(* parseEmailAddress: the match of the regular expression of line 267,     *)
(* anchored at both ends and made of, in this order:                       *)
(*   an optional group: an optional quote, capture 1 (one or more          *)
(*     characters other than quote and "<"), an optional quote, any        *)
(*     number of white-space characters;                                   *)
(*   an optional "<";                                                      *)
(*   capture 2: one or more characters other than ">", an "@", one or      *)
(*     more characters other than ">";                                     *)
(*   an optional ">".                                                      *)
(* A match is described by how much each quantifier consumed:              *)
(*   opt  - 1 when the optional name group took part                       *)
(*   q1   - 1 when the first "? consumed a quote                           *)
(*   len1 - the length of capture 1, [^"<]+                                *)
(*   q2   - 1 when the second "? consumed a quote                          *)
(*   ws   - the number of characters \s* consumed                          *)
(*   lt   - 1 when <? consumed "<"                                         *)
(* Every quantifier is greedy, so the backtracking matcher returns the     *)
(* match that is greatest in the order (opt, q1, len1, q2, ws, lt).        *)
(***************************************************************************)
\* where capture 2 ends: the final ">" can only be consumed by >?
EmailEnd(s) == IF Len(s) > 0 /\ Char(s, Len(s)) = ">" THEN Len(s) - 1 ELSE Len(s)

\* [^>]+@[^>]+ followed by >?$ matches from position p
RestMatches(s, p) ==
  LET e == EmailEnd(s) IN
    /\ p >= 1
    /\ p <= e
    /\ \A k \in p..e : Char(s, k) # ">"
    /\ \E k \in (p + 1)..(e - 1) : Char(s, k) = "@"

AddressStart(m) == m.opt * (m.q1 + m.len1 + m.q2 + m.ws) + m.lt + 1

AddressMatches(s) ==
  { m \in [opt : {0, 1}, q1 : {0, 1}, len1 : 0..Len(s), q2 : {0, 1},
           ws : 0..Len(s), lt : {0, 1}] :
      /\ m.opt = 0 => (m.q1 = 0 /\ m.len1 = 0 /\ m.q2 = 0 /\ m.ws = 0)
      /\ m.opt = 1 => m.len1 >= 1
      /\ AddressStart(m) <= Len(s)
      /\ m.q1 = 1 => Char(s, 1) = "\""
      /\ \A k \in (m.q1 + 1)..(m.q1 + m.len1) : Char(s, k) \notin {"\"", "<"}
      /\ m.q2 = 1 => Char(s, m.q1 + m.len1 + 1) = "\""
      /\ \A k \in (m.q1 + m.len1 + m.q2 + 1)..(m.q1 + m.len1 + m.q2 + m.ws) :
            IsSpace(Char(s, k))
      /\ m.lt = 1 => Char(s, AddressStart(m) - 1) = "<"
      /\ RestMatches(s, AddressStart(m)) }

\* m is tried before n by the backtracking matcher
TriedBefore(m, n) ==
  LET a == <<m.opt, m.q1, m.len1, m.q2, m.ws, m.lt>>
      b == <<n.opt, n.q1, n.len1, n.q2, n.ws, n.lt>>
  IN \E i \in 1..6 : a[i] > b[i] /\ \A j \in 1..(i - 1) : a[j] = b[j]

AddressMatch(s) ==
  CHOOSE m \in AddressMatches(s) : \A n \in AddressMatches(s) \ {m} : TriedBefore(m, n)

parseEmailAddress(address) ==
  IF AddressMatches(address) # {}
    THEN LET m  == AddressMatch(address)
             g1 == IF m.opt = 1 THEN trim(SubSeq(address, m.q1 + 1, m.q1 + m.len1)) ELSE ""
             g2 == SubSeq(address, AddressStart(m), EmailEnd(address))
         IN [name  |-> IF g1 = "" THEN Null ELSE g1,
             email |-> trim(toLowerCase(g2))]
    ELSE [name |-> Null, email |-> trim(toLowerCase(address))]

(***************************************************************************)
(* extractDomain, isPersonalDomain and the routing-address test.           *)
(***************************************************************************)
\* email.split('@') has exactly two parts
extractDomain(email) ==
  IF CountChar(email, "@") = 1
    THEN LET at == CHOOSE i \in 1..Len(email) : Char(email, i) = "@"
         IN toLowerCase(SubSeq(email, at + 1, Len(email)))
    ELSE Null

PERSONAL_DOMAINS ==
  {"gmail.com", "googlemail.com", "outlook.com", "hotmail.com", "live.com",
   "msn.com", "yahoo.com", "ymail.com", "aol.com", "icloud.com", "me.com",
   "mac.com", "proton.me", "protonmail.com", "tutanota.com", "fastmail.com",
   "zoho.com"}

\* isPersonalDomain without the guard "if (!domain) return true"
isPersonalDomainUnguarded(domain) == toLowerCase(domain) \in PERSONAL_DOMAINS

isPersonalDomain(domain) ==
  IF domain = Null \/ domain = "" THEN TRUE
  ELSE toLowerCase(domain) \in PERSONAL_DOMAINS

\* email.startsWith('u_') && email.includes('@in.')
IsAppAddress(email) == startsWith(email, "u_") /\ includes(email, "@in.")

(***************************************************************************)
(* formatOrgName                                                           *)
(***************************************************************************)
TLD_SUFFIXES == {".com", ".io", ".co", ".org", ".net", ".app", ".dev"}

\* domain.replace(/\.(com|io|co|org|net|app|dev)$/, '')
StripTld(domain) ==
  IF \E t \in TLD_SUFFIXES : endsWith(domain, t)
    THEN LET t == CHOOSE t \in TLD_SUFFIXES : endsWith(domain, t)
         IN SubSeq(domain, 1, Len(domain) - Len(t))
    ELSE domain

\* s.replace(/[-_]/g, ' ')
RECURSIVE DashesToSpaces(_)
DashesToSpaces(s) ==
  IF Len(s) = 0 THEN ""
  ELSE (IF Char(s, 1) \in {"-", "_"} THEN " " ELSE Char(s, 1))
         \o DashesToSpaces(SubSeq(s, 2, Len(s)))

\* s.split(' ')
RECURSIVE SplitSpaces(_)
SplitSpaces(s) ==
  IF \E i \in 1..Len(s) : Char(s, i) = " "
    THEN LET i == CHOOSE i \in 1..Len(s) :
                    Char(s, i) = " " /\ \A j \in 1..(i - 1) : Char(s, j) # " "
         IN <<SubSeq(s, 1, i - 1)>> \o SplitSpaces(SubSeq(s, i + 1, Len(s)))
    ELSE <<s>>

\* a word left as it is: the capitalisation forgotten
KeepCase(word) == word

\* word.charAt(0).toUpperCase() + word.slice(1)
Capitalize(word) ==
  IF Len(word) = 0 THEN "" ELSE UpperOf(Char(word, 1)) \o SubSeq(word, 2, Len(word))

\* words.join(' ')
RECURSIVE JoinSpaces(_)
JoinSpaces(words) ==
  IF Len(words) = 0 THEN ""
  ELSE IF Len(words) = 1 THEN words[1]
  ELSE words[1] \o " " \o JoinSpaces(Tail(words))

formatOrgName(domain) ==
  LET words == SplitSpaces(DashesToSpaces(StripTld(domain)))
  IN JoinSpaces([i \in 1..Len(words) |-> Capitalize(words[i])])

(***************************************************************************)
(* classifyMeeting.  A pattern is a sequence of words separated by \s+,    *)
(* matched ignoring case, with or without \b at both ends.                 *)
(***************************************************************************)
IsWordChar(c) == IsIn(c, LowerChars) \/ IsIn(c, UpperChars) \/ IsIn(c, DigitChars) \/ c = "_"

\* \b between positions i - 1 and i of s
WordBoundary(s, i) ==
  LET before == i >= 2 /\ i - 1 <= Len(s) /\ IsWordChar(Char(s, i - 1))
      after  == i >= 1 /\ i <= Len(s) /\ IsWordChar(Char(s, i))
  IN before # after

\* the positions just after a match of words (separated by \s+) that starts at i
RECURSIVE PhraseEnds(_, _, _)
PhraseEnds(s, i, words) ==
  LET w == words[1]
      e == i + Len(w)
  IN IF e - 1 > Len(s) \/ toLowerCase(SubSeq(s, i, e - 1)) # w THEN {}
     ELSE IF Len(words) = 1 THEN {e}
     ELSE UNION { PhraseEnds(s, j, Tail(words)) :
                    j \in { k \in (e + 1)..Len(s) :
                              \A h \in e..(k - 1) : IsSpace(Char(s, h)) } }

PhraseFound(s, words, bounded) ==
  \E i \in 1..Len(s) : \E e \in PhraseEnds(s, i, words) :
     bounded => (WordBoundary(s, i) /\ WordBoundary(s, e))

\* (sync|check-?in|meeting|call)
CADENCE_WORDS == {"sync", "check-in", "checkin", "meeting", "call"}

QBR_PHRASE == <<"quarterly", "business", "review">>

\* MEETING_PATTERNS: every entry is wrapped in \b ... \b
MEETING_PATTERNS ==
  {<<"qbr">>, QBR_PHRASE, <<"annual", "review">>, <<"yearly", "review">>,
   <<"deal", "review">>, <<"pipeline", "review">>}
  \cup { <<"weekly", w>> : w \in CADENCE_WORDS }
  \cup { <<"monthly", w>> : w \in CADENCE_WORDS }

classifyMeeting(subject) ==
  IF PhraseFound(subject, <<"qbr">>, TRUE) \/ PhraseFound(subject, QBR_PHRASE, FALSE)
    THEN "QBR"
  ELSE IF \/ PhraseFound(subject, <<"annual", "review">>, FALSE)
          \/ PhraseFound(subject, <<"yearly", "review">>, FALSE)
    THEN "ANNUAL_REVIEW"
  ELSE IF \E w \in CADENCE_WORDS : PhraseFound(subject, <<"weekly", w>>, FALSE)
    THEN "WEEKLY_CHECKIN"
  ELSE IF \/ PhraseFound(subject, <<"deal", "review">>, FALSE)
          \/ PhraseFound(subject, <<"pipeline", "review">>, FALSE)
    THEN "DEAL_REVIEW"
  ELSE IF \E pat \in MEETING_PATTERNS : PhraseFound(subject, pat, TRUE)
    THEN "OTHER"
  ELSE Null

(***************************************************************************)
(* parseInboundEmail and extractContacts.  A payload carries messageId,    *)
(* from, to, cc, bcc and subject; an absent cc or bcc is the empty list.   *)
(* The bodies, sentAt and the thread headers are copied into the stored    *)
(* row and read by nothing in the ingestion flow; they are left out.       *)
(***************************************************************************)
\* inbound.bcc?.find(addr => app address) || null
FindBcc(bcc) ==
  IF \E i \in 1..Len(bcc) : IsAppAddress(parseEmailAddress(bcc[i]).email)
    THEN bcc[CHOOSE i \in 1..Len(bcc) :
               /\ IsAppAddress(parseEmailAddress(bcc[i]).email)
               /\ \A j \in 1..(i - 1) : ~IsAppAddress(parseEmailAddress(bcc[j]).email)]
    ELSE Null

\* addrs.map(addr => parseEmailAddress(addr).email)
RECURSIVE ParseEmails(_)
ParseEmails(addrs) ==
  IF Len(addrs) = 0 THEN <<>>
  ELSE <<parseEmailAddress(addrs[1]).email>> \o ParseEmails(Tail(addrs))

parseInboundEmail(inbound) ==
  LET from         == parseEmailAddress(inbound.from)
      bccRecipient == FindBcc(inbound.bcc)
  IN [messageId    |-> inbound.messageId,
      fromAddress  |-> from.email,
      fromName     |-> from.name,
      toAddresses  |-> ParseEmails(inbound.to),
      ccAddresses  |-> ParseEmails(inbound.cc),
      subject      |-> inbound.subject,
      bccRecipient |-> IF bccRecipient = Null THEN Null
                       ELSE parseEmailAddress(bccRecipient).email]

\* lines 24-34 with a fallback to the first To address when none is an app address
FindBccAddressOrFirstTo(parsedEmail) ==
  IF parsedEmail.bccRecipient # Null THEN parsedEmail.bccRecipient
  ELSE LET to == parsedEmail.toAddresses IN
       IF \E i \in 1..Len(to) : IsAppAddress(to[i])
         THEN to[CHOOSE i \in 1..Len(to) :
                   IsAppAddress(to[i]) /\ \A j \in 1..(i - 1) : ~IsAppAddress(to[j])]
         ELSE IF Len(to) > 0 THEN to[1] ELSE Null

\* handleInboundEmail, lines 24-34: the address the owning user is looked up by
FindBccAddress(parsedEmail) ==
  IF parsedEmail.bccRecipient # Null THEN parsedEmail.bccRecipient
  ELSE LET to == parsedEmail.toAddresses IN
       IF \E i \in 1..Len(to) : IsAppAddress(to[i])
         THEN to[CHOOSE i \in 1..Len(to) :
                   IsAppAddress(to[i]) /\ \A j \in 1..(i - 1) : ~IsAppAddress(to[j])]
         ELSE Null

\* one pass of "for (const addr of ...)" of extractContacts over the list addrs
RECURSIVE AddRecipients(_, _)
AddRecipients(found, addrs) ==
  IF Len(addrs) = 0 THEN found
  ELSE LET parsedAddr == parseEmailAddress(addrs[1])
           skip   == \/ IsAppAddress(parsedAddr.email)
                     \/ \E i \in 1..Len(found) : found[i].email = parsedAddr.email
       IN AddRecipients(
            IF skip THEN found
            ELSE Append(found, [email  |-> parsedAddr.email,
                                name   |-> parsedAddr.name,
                                domain |-> extractDomain(parsedAddr.email)]),
            Tail(addrs))

extractContacts(inbound) ==
  LET from == parseEmailAddress(inbound.from)
      sender == [email |-> from.email, name |-> from.name,
                 domain |-> extractDomain(from.email)]
  IN AddRecipients(AddRecipients(<<sender>>, inbound.to), inbound.cc)

(***************************************************************************)
(* The store.  User rows are created at signup and are constant here.      *)
(***************************************************************************)
USERS ==
  {[id |-> "user-1", bccAddress |-> "u_k1@in.cs.io"],
   [id |-> "user-2", bccAddress |-> "u_k2@in.cs.io"]}

\* a lookup that ignores its where clause: some user is always found
FindUserFirst(address) == (CHOOSE u \in USERS : TRUE).id

\* prisma.user.findUnique({ where: { bccAddress } })
FindUser(address) ==
  IF \E u \in USERS : u.bccAddress = address
    THEN (CHOOSE u \in USERS : u.bccAddress = address).id
    ELSE Null

(***************************************************************************)
(* The deliveries the webhook transport may make.                          *)
(***************************************************************************)
Payload(messageId, from, to, cc, bcc, subject) ==
  [messageId |-> messageId, from |-> from, to |-> to, cc |-> cc, bcc |-> bcc,
   subject |-> subject]

\* two colleagues of one new corporate domain write to user-1 about a QBR
PayloadQbr ==
  Payload("m1", "Ann <ann@acme-corp.com>",
          <<"<u_k1@in.cs.io>", "Bob <bob@acme-corp.com>">>, <<>>, <<>>, "Q4 QBR")
\* a personal-domain sender; ann without a display name; the same title in lower case
PayloadPersonal ==
  Payload("m2", "Pat <pat@gmail.com>", <<"<ann@acme-corp.com>">>, <<>>,
          <<"<u_k1@in.cs.io>">>, "q4 qbr")
\* the messageId of PayloadQbr with another sender, one without an address,
\* and another subject
PayloadReusedId ==
  Payload("m1", "nobody", <<"<u_k1@in.cs.io>">>, <<>>, <<>>, "Invoice 7")
\* routed by Bcc to user-2 although the To list names user-1's address
PayloadOtherUser ==
  Payload("m1", "Anna <ann@acme-corp.com>", <<"<u_k1@in.cs.io>">>, <<>>,
          <<"<u_k2@in.cs.io>">>, "Q4 QBR")
\* bare addresses in To, no Bcc
PayloadBare ==
  Payload("m3", "John Doe <john@example.com>",
          <<"u_k1@in.cs.io", "jane@company.com">>, <<>>, <<>>, "Hello")
\* no routing address at all
PayloadUnroutable ==
  Payload("m3", "Dee <dee@beta.io>", <<"Bob <bob@acme-corp.com>">>, <<>>, <<>>, "Q4 QBR")
\* a routing address no user owns
PayloadUnknownUser ==
  Payload("m4", "Dee <dee@beta.io>", <<"<u_zz@in.cs.io>">>, <<>>, <<>>, "Q4 QBR")

Payloads ==
  {PayloadQbr, PayloadPersonal, PayloadReusedId, PayloadOtherUser, PayloadBare,
   PayloadUnroutable, PayloadUnknownUser}

(***************************************************************************)
(* The webhook route POST /api/inbound-email: a JSON body is a record; a   *)
(* key that is absent reads as undefined.  In the bodies used here the     *)
(* Resend and generic "to" is an array and the Postmark "To" is a string.  *)
(***************************************************************************)
Has(json, key) == key \in DOMAIN json

\* value || fallback
OrElse(json, key, fallback) == IF Has(json, key) THEN json[key] ELSE fallback

\* s.split(',').map(s => s.trim())
RECURSIVE SplitCommas(_)
SplitCommas(s) ==
  IF \E i \in 1..Len(s) : Char(s, i) = ","
    THEN LET i == CHOOSE i \in 1..Len(s) :
                    Char(s, i) = "," /\ \A j \in 1..(i - 1) : Char(s, j) # ","
         IN <<trim(SubSeq(s, 1, i - 1))>> \o SplitCommas(SubSeq(s, i + 1, Len(s)))
    ELSE <<trim(s)>>

\* the outcomes of transformPayload: a payload, null, or a TypeError
Transformed(pl) == [outcome |-> "payload", value |-> pl]
NotTransformed == [outcome |-> "null"]
TransformThrows == [outcome |-> "throw"]

\* transformPayload; generated is what generateMessageId() returns
transformPayload(body, generated) ==
  IF Has(body, "type") /\ body.type = "email.received" /\ Has(body, "data")
    THEN LET data == body.data IN
         Transformed(Payload(OrElse(data, "email_id", generated), data.from, data.to,
                             OrElse(data, "cc", <<>>), OrElse(data, "bcc", <<>>),
                             OrElse(data, "subject", "(no subject)")))
  ELSE IF Has(body, "MessageID") \/ Has(body, "OriginalRecipient")
    THEN IF ~Has(body, "To")
           \* (body.To as string).split(',') on undefined
           THEN TransformThrows
           ELSE Transformed(Payload(OrElse(body, "MessageID", generated), body.From,
                                    SplitCommas(body.To),
                                    IF Has(body, "Cc") THEN SplitCommas(body.Cc) ELSE <<>>,
                                    IF Has(body, "Bcc") THEN SplitCommas(body.Bcc) ELSE <<>>,
                                    OrElse(body, "Subject", "(no subject)")))
  ELSE IF Has(body, "from") /\ Has(body, "to")
    THEN Transformed(Payload(OrElse(body, "messageId", generated), body.from, body.to,
                             OrElse(body, "cc", <<>>), OrElse(body, "bcc", <<>>),
                             OrElse(body, "subject", "(no subject)")))
  ELSE NotTransformed

\* the generic format of a payload
GenericBody(pl) ==
  [messageId |-> pl.messageId, from |-> pl.from, to |-> pl.to, cc |-> pl.cc,
   bcc |-> pl.bcc, subject |-> pl.subject]

\* PayloadUnroutable as Resend sends it
BodyResend ==
  [type |-> "email.received",
   data |-> [email_id |-> "m3", from |-> "Dee <dee@beta.io>",
             to |-> <<"Bob <bob@acme-corp.com>">>, subject |-> "Q4 QBR"]]
\* PayloadQbr as Postmark sends it
BodyPostmark ==
  [MessageID |-> "m1", From |-> "Ann <ann@acme-corp.com>",
   To |-> "<u_k1@in.cs.io>, Bob <bob@acme-corp.com>", Subject |-> "Q4 QBR"]
\* a generic body without messageId and subject, to an address no user owns
BodyDefaults == [from |-> "Dee <dee@beta.io>", to |-> <<"<u_zz@in.cs.io>">>]
\* no format matches
BodyInvalid == [invalid |-> "This has no from or to fields"]
\* a Postmark body without To
BodyPostmarkNoTo == [MessageID |-> "m5", From |-> "Dee <dee@beta.io>", Subject |-> "Q4 QBR"]

Bodies ==
  { GenericBody(pl) : pl \in Payloads }
    \cup {BodyResend, BodyPostmark, BodyDefaults, BodyInvalid, BodyPostmarkNoTo}

GeneratedIds == {"g1"}

\* transformPayload applied to every body, computed once
TransformResults ==
  [body \in Bodies, generated \in GeneratedIds |-> transformPayload(body, generated)]

TransformedPayloads ==
  { TransformResults[b, g].value :
      <<b, g>> \in { bg \in Bodies \X GeneratedIds :
                       TransformResults[bg[1], bg[2]].outcome = "payload" } }

\* a later message to user-1 in which ann carries another display name
PayloadAnna ==
  Payload("m5", "Anna <ann@acme-corp.com>", <<"<u_k1@in.cs.io>">>, <<>>, <<>>, "Hello")

\* three messages to user-1 that all name ann@acme-corp.com: without a display
\* name, as Ann, and as Anna
RacePayloads == {PayloadPersonal, PayloadQbr, PayloadAnna}

\* The parser's results for each payload (pure functions of the payload), computed
\* once: what a call of handleInboundEmail holds in its locals parsedEmail,
\* bccAddress, extractedContacts and meetingType.
RECURSIVE ParserResults(_)
ParserResults(pls) ==
  IF pls = {} THEN <<>>
  ELSE LET pl == CHOOSE q \in pls : TRUE
           parsedEmail == parseInboundEmail(pl)
       IN (pl :> [parsedEmail       |-> parsedEmail,
                  bccAddress        |-> FindBccAddress(parsedEmail),
                  extractedContacts |-> extractContacts(pl),
                  meetingType       |-> classifyMeeting(parsedEmail.subject)])
          @@ ParserResults(pls \ {pl})

Parser == ParserResults(Payloads \cup TransformedPayloads \cup RacePayloads)

NumDeliveries == 2
Deliveries == 1..NumDeliveries

\* the deliveries of the three-way race on one Contact
NumRacers == 3
Racers == 1..NumRacers

Calls == Deliveries \cup Racers

\* POST has not answered yet
NoStatus == 0

(***************************************************************************)
(* State.  Rows are kept in creation order; the id of a row (a string the  *)
(* store generates) names its position.  Each delivery is one call of      *)
(* handleInboundEmail; every awaited prisma call is one atomic step of the *)
(* delivery.                                                               *)
(***************************************************************************)
VARIABLES
  orgs,            \* Org rows           [userId, domain, name]
  contacts,        \* Contact rows       [userId, email, name, orgId]
  meetings,        \* Meeting rows       [userId, title, meetingType, orgId]
  emailMessages,   \* EmailMessage rows
  pc,              \* the prisma call each delivery is about to make
  payload,         \* the payload of each delivery
  parsed,          \* locals parsedEmail, bccAddress, extractedContacts, meetingType
  user,            \* user.id
  idx,             \* position of the for loop in extractedContacts
  contactToOrg,    \* local map email -> org id
  org,             \* id of the org upsertOrg returned for the current contact
  existingContact, \* id of the row upsertContact found
  meetingId,       \* local meetingId
  result,          \* how the call ended: a return, or "error" for a throw
  error,           \* the message of the error thrown
  thrown,          \* the message of the error a prisma call of the delivery raised
  status,          \* the HTTP status POST answered the delivery with, 0 before
  dbCalls,         \* number of prisma calls the delivery has made
  redelivery,      \* the EmailMessage row existed when the delivery began
  applied          \* a parser function called on its own: [fn, input, output]

\* the id of the k-th row created in a table
RowId(k) == ToString(k)

\* the position of the row with this id
RowIndex(id) == CHOOSE k \in 1..(Len(orgs) + Len(contacts) + Len(meetings)) : RowId(k) = id

\* no parser function has been called on its own
NotApplied == [fn |-> "none"]

store == <<orgs, contacts, meetings, emailMessages>>
locals == <<pc, payload, parsed, user, idx, contactToOrg, org, existingContact,
            meetingId, result, error, thrown, status, dbCalls, redelivery>>
vars == <<orgs, contacts, meetings, emailMessages, pc, payload, parsed, user, idx,
          contactToOrg, org, existingContact, meetingId, result, error, thrown,
          status, dbCalls, redelivery, applied>>

Init ==
  /\ orgs = <<>>
  /\ contacts = <<>>
  /\ meetings = <<>>
  /\ emailMessages = <<>>
  /\ pc = [p \in Calls |-> "idle"]
  /\ payload = [p \in Calls |-> Null]
  /\ parsed = [p \in Calls |-> Null]
  /\ user = [p \in Calls |-> Null]
  /\ idx = [p \in Calls |-> 1]
  /\ contactToOrg = [p \in Calls |-> <<>>]
  /\ org = [p \in Calls |-> Null]
  /\ existingContact = [p \in Calls |-> Null]
  /\ meetingId = [p \in Calls |-> Null]
  /\ result = [p \in Calls |-> Null]
  /\ error = [p \in Calls |-> Null]
  /\ thrown = [p \in Calls |-> Null]
  /\ status = [p \in Calls |-> NoStatus]
  /\ dbCalls = [p \in Calls |-> 0]
  /\ redelivery = [p \in Calls |-> FALSE]
  /\ applied = NotApplied

(***************************************************************************)
(* Lookups by key, and the unique indexes behind them.  findUnique takes   *)
(* a unique key of the schema: where: { userId_domain } and                *)
(* where: { userId_email } name the compound unique keys of Org and        *)
(* Contact.  EmailMessage is unique on (userId, messageId): the catch of   *)
(* lines 108-116 handles that duplicate.  A create that would repeat a key *)
(* fails with Prisma's "Unique constraint failed" error.                   *)
(***************************************************************************)
\* an Org lookup by domain alone, whoever owns the row
OrgWhereAnyUser(rows, userId, domain) ==
  { k \in 1..Len(rows) : rows[k].domain = domain }

\* where: { userId_domain: { userId, domain } }
OrgWhere(rows, userId, domain) ==
  { k \in 1..Len(rows) : rows[k].userId = userId /\ rows[k].domain = domain }

\* a Contact lookup that finds nothing
ContactWhereNone(rows, userId, email) == {}

\* a Contact lookup by email alone, across users
ContactWhereAnyUser(rows, userId, email) ==
  { k \in 1..Len(rows) : rows[k].email = email }

\* where: { userId_email: { userId, email } }
ContactWhere(rows, userId, email) ==
  { k \in 1..Len(rows) : rows[k].userId = userId /\ rows[k].email = email }

\* an Org table without the unique index on (userId, domain)
OrgKeyNeverTaken(rows, userId, domain) == FALSE

OrgKeyTaken(rows, userId, domain) == OrgWhere(rows, userId, domain) # {}

ContactKeyTaken(rows, userId, email) == ContactWhere(rows, userId, email) # {}

EmailMessageKeyTaken(rows, userId, messageId) ==
  \E k \in 1..Len(rows) : rows[k].userId = userId /\ rows[k].messageId = messageId

UniqueConstraintError(fields) == "Unique constraint failed on " \o fields

\* a catch that takes every error for the duplicate
IsAnyError(message) == TRUE

\* a duplicate recognised by Prisma's error code instead of the message text
IsDuplicateErrorByCode(message) == includes(message, "P2002")

\* error instanceof Error && error.message.includes('Unique constraint')
IsDuplicateError(message) == includes(message, "Unique constraint")

(***************************************************************************)
(* handleInboundEmail                                                      *)
(***************************************************************************)
\* a loop exit that resolves a meeting whatever the classification
LoopPcAlwaysMeeting(call, k) ==
  IF k <= Len(call.extractedContacts)
    THEN IF isPersonalDomain(call.extractedContacts[k].domain)
           THEN "contact.findUnique"
           ELSE "org.findUnique"
  ELSE "meeting.findFirst"

\* a loop that upserts no participant
LoopPcSkipsContacts(call, k) ==
  IF call.meetingType # Null THEN "meeting.findFirst"
  ELSE "emailMessage.create"

\* the prisma call that follows the loop head at position k (lines 56-91)
LoopPc(call, k) ==
  IF k <= Len(call.extractedContacts)
    THEN IF isPersonalDomain(call.extractedContacts[k].domain)
           THEN "contact.findUnique"
           ELSE "org.findUnique"
  ELSE IF call.meetingType # Null THEN "meeting.findFirst"
  ELSE "emailMessage.create"

Contact(p) == parsed[p].extractedContacts[idx[p]]

\* POST, lines 43-50 of the route: success when handleInboundEmail returned,
\* status 500 when it threw
StatusOf(how) == IF how = "error" THEN 500 ELSE 200

\* the call returns or throws, and POST answers
Finish(p, how, message) ==
  /\ pc' = [pc EXCEPT ![p] = "done"]
  /\ result' = [result EXCEPT ![p] = how]
  /\ error' = [error EXCEPT ![p] = message]
  /\ status' = [status EXCEPT ![p] = StatusOf(how)]

\* a return statement of handleInboundEmail
Return(p, how) == Finish(p, how, Null) /\ UNCHANGED thrown

\* a prisma call outside try/catch rejects: the error leaves handleInboundEmail
Throw(p, message) ==
  /\ thrown' = [thrown EXCEPT ![p] = message]
  /\ Finish(p, "error", message)

\* lines 111-118: prisma.emailMessage.create rejects inside the try block
Catch(p, message) ==
  /\ thrown' = [thrown EXCEPT ![p] = message]
  /\ IF IsDuplicateError(message)
       THEN Finish(p, "duplicate", Null)
       ELSE Finish(p, "error", message)

\* a create that writes over the newest row of the table
OverwriteNewestRow(rows, row) ==
  IF Len(rows) = 0 THEN <<row>> ELSE [rows EXCEPT ![Len(rows)] = row]

\* prisma.<table>.create appends a row to the table
CreateRow(rows, row) == Append(rows, row)

\* lines 18-39: parse, pick the routing address, return if there is none
Receive(p, pl) ==
  /\ pc[p] = "idle"
  /\ \A q \in 1..(p - 1) : pc[q] # "idle"
  /\ payload' = [payload EXCEPT ![p] = pl]
  /\ parsed' = [parsed EXCEPT ![p] = Parser[pl]]
  /\ redelivery' = [redelivery EXCEPT ![p] =
        /\ FindUser(parsed'[p].bccAddress) # Null
        /\ EmailMessageKeyTaken(emailMessages, FindUser(parsed'[p].bccAddress),
                                pl.messageId)]
  /\ IF parsed'[p].bccAddress = Null
       THEN Return(p, "unroutable")
       ELSE /\ pc' = [pc EXCEPT ![p] = "user.findUnique"]
            /\ UNCHANGED <<result, error, thrown, status>>
  /\ UNCHANGED <<store, user, idx, contactToOrg, org, existingContact, meetingId, dbCalls,
                 applied>>

\* lines 41-56: look the user up, return if there is none, extract the contacts
UserFindUnique(p) ==
  /\ pc[p] = "user.findUnique"
  /\ dbCalls' = [dbCalls EXCEPT ![p] = @ + 1]
  /\ user' = [user EXCEPT ![p] = FindUser(parsed[p].bccAddress)]
  /\ IF FindUser(parsed[p].bccAddress) = Null
       THEN Return(p, "no-user")
       ELSE /\ pc' = [pc EXCEPT ![p] = LoopPc(parsed[p], 1)]
            /\ UNCHANGED <<result, error, thrown, status>>
  /\ UNCHANGED <<store, payload, parsed, idx, contactToOrg, org, existingContact,
                 meetingId, redelivery, applied>>

\* upsertOrg, lines 128-137: prisma.org.findUnique
OrgFindUnique(p) ==
  /\ pc[p] = "org.findUnique"
  /\ dbCalls' = [dbCalls EXCEPT ![p] = @ + 1]
  /\ IF OrgWhere(orgs, user[p], Contact(p).domain) # {}
       THEN /\ org' = [org EXCEPT ![p] =
                  RowId(CHOOSE k \in OrgWhere(orgs, user[p], Contact(p).domain) : TRUE)]
            /\ pc' = [pc EXCEPT ![p] = "contact.findUnique"]
       ELSE /\ pc' = [pc EXCEPT ![p] = "org.create"]
            /\ UNCHANGED org
  /\ UNCHANGED <<store, payload, parsed, user, idx, contactToOrg, existingContact,
                 meetingId, result, error, thrown, status,
                 redelivery, applied>>

\* upsertOrg, lines 139-149: prisma.org.create; its error is not caught
OrgCreate(p) ==
  /\ pc[p] = "org.create"
  /\ dbCalls' = [dbCalls EXCEPT ![p] = @ + 1]
  /\ IF OrgKeyTaken(orgs, user[p], Contact(p).domain)
       THEN /\ Throw(p, UniqueConstraintError("Org (userId, domain)"))
            /\ UNCHANGED <<orgs, org>>
       ELSE /\ orgs' = CreateRow(orgs, [userId |-> user[p],
                                     domain |-> Contact(p).domain,
                                     name   |-> formatOrgName(Contact(p).domain)])
            /\ org' = [org EXCEPT ![p] = RowId(Len(orgs) + 1)]
            /\ pc' = [pc EXCEPT ![p] = "contact.findUnique"]
            /\ UNCHANGED <<result, error, thrown, status>>
  /\ UNCHANGED <<contacts, meetings, emailMessages, payload, parsed, user, idx,
                 contactToOrg, existingContact, meetingId, redelivery, applied>>

\* lines 61-62 and 70-71: contactToOrg.set(...), then the next pass of the loop
NextContact(p) ==
  /\ contactToOrg' = [contactToOrg EXCEPT ![p] = Append(@, <<Contact(p).email, org[p]>>)]
  /\ idx' = [idx EXCEPT ![p] = @ + 1]
  /\ org' = [org EXCEPT ![p] = Null]
  /\ existingContact' = [existingContact EXCEPT ![p] = Null]
  /\ pc' = [pc EXCEPT ![p] = LoopPc(parsed[p], idx[p] + 1)]

\* an upsertContact that never takes the new name
NameIsNeverBetter(name, existingName) == FALSE

\* contact.name && !existingContact.name
NameIsBetter(name, existingName) == name # Null /\ name # "" /\ existingName \in {Null, ""}

\* upsertContact, lines 161-179: prisma.contact.findUnique
ContactFindUnique(p) ==
  /\ pc[p] = "contact.findUnique"
  /\ dbCalls' = [dbCalls EXCEPT ![p] = @ + 1]
  /\ IF ContactWhere(contacts, user[p], Contact(p).email) # {}
       THEN LET k == CHOOSE k \in ContactWhere(contacts, user[p], Contact(p).email) : TRUE
            IN IF NameIsBetter(Contact(p).name, contacts[k].name)
                 THEN /\ existingContact' = [existingContact EXCEPT ![p] = RowId(k)]
                      /\ pc' = [pc EXCEPT ![p] = "contact.update"]
                      /\ UNCHANGED <<idx, contactToOrg, org>>
                 ELSE NextContact(p)
       ELSE /\ pc' = [pc EXCEPT ![p] = "contact.create"]
            /\ UNCHANGED <<idx, contactToOrg, org, existingContact>>
  /\ UNCHANGED <<store, payload, parsed, user, meetingId, result, error, thrown, status,
                 redelivery, applied>>

\* an update that writes the row anew from the name alone, dropping its org
UpdatedContactUnlinked(row, name) == [row EXCEPT !.name = name, !.orgId = Null]

\* data: { name: contact.name }: the update writes the name and nothing else
UpdatedContact(row, name) == [row EXCEPT !.name = name]

\* upsertContact, lines 173-178: prisma.contact.update of the name
ContactUpdate(p) ==
  /\ pc[p] = "contact.update"
  /\ dbCalls' = [dbCalls EXCEPT ![p] = @ + 1]
  /\ contacts' = [contacts EXCEPT ![RowIndex(existingContact[p])] =
                     UpdatedContact(@, Contact(p).name)]
  /\ NextContact(p)
  /\ UNCHANGED <<orgs, meetings, emailMessages, payload, parsed, user, meetingId,
                 result, error, thrown, status,
                 redelivery, applied>>

\* upsertContact, lines 182-189: prisma.contact.create; its error is not caught
ContactCreate(p) ==
  /\ pc[p] = "contact.create"
  /\ dbCalls' = [dbCalls EXCEPT ![p] = @ + 1]
  /\ IF ContactKeyTaken(contacts, user[p], Contact(p).email)
       THEN /\ Throw(p, UniqueConstraintError("Contact (userId, email)"))
            /\ UNCHANGED <<contacts, idx, contactToOrg, org, existingContact>>
       ELSE /\ contacts' = CreateRow(contacts, [userId |-> user[p],
                                             email  |-> Contact(p).email,
                                             name   |-> Contact(p).name,
                                             orgId  |-> org[p]])
            /\ NextContact(p)
            /\ UNCHANGED <<result, error, thrown, status>>
  /\ UNCHANGED <<orgs, meetings, emailMessages, payload, parsed, user, meetingId,
                 redelivery, applied>>

\* the org of the first participant that has one, or null
PrimaryOrgIdFirstLinked(p) ==
  IF \E k \in 1..Len(contactToOrg[p]) : contactToOrg[p][k][2] # Null
    THEN contactToOrg[p][CHOOSE k \in 1..Len(contactToOrg[p]) :
                           /\ contactToOrg[p][k][2] # Null
                           /\ \A h \in 1..(k - 1) : contactToOrg[p][h][2] = Null][2]
    ELSE Null

\* lines 81-88: the org of extractedContacts[0], or null
PrimaryOrgId(p) ==
  LET cs == parsed[p].extractedContacts IN
  IF Len(cs) = 0 THEN Null
  ELSE IF \E k \in 1..Len(contactToOrg[p]) : contactToOrg[p][k][1] = cs[1].email
    THEN LET k == CHOOSE k \in 1..Len(contactToOrg[p]) :
                    /\ contactToOrg[p][k][1] = cs[1].email
                    /\ \A h \in (k + 1)..Len(contactToOrg[p]) :
                          contactToOrg[p][h][1] # cs[1].email
         IN contactToOrg[p][k][2]
    ELSE Null

\* a title filter that matches no row
SameTitleNever(a, b) == FALSE

\* title: { equals: title } without mode: 'insensitive'
SameTitleExact(a, b) == a = b

\* title: { equals: title, mode: 'insensitive' }
SameTitle(a, b) == toLowerCase(a) = toLowerCase(b)

\* upsertMeeting, lines 202-214: prisma.meeting.findFirst, which has no orderBy:
\* any matching row may be the one returned
MeetingFindFirst(p) ==
  /\ pc[p] = "meeting.findFirst"
  /\ dbCalls' = [dbCalls EXCEPT ![p] = @ + 1]
  /\ LET found == { k \in 1..Len(meetings) :
                      /\ meetings[k].userId = user[p]
                      /\ SameTitle(meetings[k].title, parsed[p].parsedEmail.subject) }
     IN IF found # {}
          THEN /\ \E k \in found : meetingId' = [meetingId EXCEPT ![p] = RowId(k)]
               /\ pc' = [pc EXCEPT ![p] = "emailMessage.create"]
          ELSE /\ pc' = [pc EXCEPT ![p] = "meeting.create"]
               /\ UNCHANGED meetingId
  /\ UNCHANGED <<store, payload, parsed, user, idx, contactToOrg, org,
                 existingContact, result, error, thrown, status,
                 redelivery, applied>>

\* upsertMeeting, lines 216-223: prisma.meeting.create
MeetingCreate(p) ==
  /\ pc[p] = "meeting.create"
  /\ dbCalls' = [dbCalls EXCEPT ![p] = @ + 1]
  /\ meetings' = CreateRow(meetings, [userId      |-> user[p],
                                   title       |-> parsed[p].parsedEmail.subject,
                                   meetingType |-> parsed[p].meetingType,
                                   orgId       |-> PrimaryOrgId(p)])
  /\ meetingId' = [meetingId EXCEPT ![p] = RowId(Len(meetings) + 1)]
  /\ pc' = [pc EXCEPT ![p] = "emailMessage.create"]
  /\ UNCHANGED <<orgs, contacts, emailMessages, payload, parsed, user, idx,
                 contactToOrg, org, existingContact, result, error, thrown, status,
                 redelivery, applied>>

\* lines 93-120: prisma.emailMessage.create inside try/catch
EmailMessageCreate(p) ==
  /\ pc[p] = "emailMessage.create"
  /\ dbCalls' = [dbCalls EXCEPT ![p] = @ + 1]
  /\ IF EmailMessageKeyTaken(emailMessages, user[p], parsed[p].parsedEmail.messageId)
       THEN /\ Catch(p, UniqueConstraintError("EmailMessage (userId, messageId)"))
            /\ UNCHANGED emailMessages
       ELSE /\ emailMessages' = CreateRow(emailMessages,
                 [userId      |-> user[p],
                  messageId   |-> parsed[p].parsedEmail.messageId,
                  fromAddress |-> parsed[p].parsedEmail.fromAddress,
                  toAddresses |-> parsed[p].parsedEmail.toAddresses,
                  ccAddresses |-> parsed[p].parsedEmail.ccAddresses,
                  subject     |-> parsed[p].parsedEmail.subject,
                  meetingId   |-> meetingId[p],
                  dealId      |-> Null])
            /\ Return(p, "stored")
  /\ UNCHANGED <<orgs, contacts, meetings, payload, parsed, user, idx, contactToOrg,
                 org, existingContact, meetingId, redelivery, applied>>

\* one awaited call of delivery p
Step(p) ==
  \/ UserFindUnique(p)
  \/ OrgFindUnique(p)
  \/ OrgCreate(p)
  \/ ContactFindUnique(p)
  \/ ContactUpdate(p)
  \/ ContactCreate(p)
  \/ MeetingFindFirst(p)
  \/ MeetingCreate(p)
  \/ EmailMessageCreate(p)

\* no call of handleInboundEmail is in progress
Quiet == \A q \in Deliveries : pc[q] \in {"idle", "done", "rejected"}

\* deliveries run concurrently, interleaved at their awaits
Next == \E p \in Deliveries : (\E pl \in Payloads : Receive(p, pl)) \/ Step(p)

Spec == Init /\ [][Next]_vars

\* deliveries arrive one after the other: a call begins when none is in progress
NextSeq == \E p \in Deliveries : (Quiet /\ \E pl \in Payloads : Receive(p, pl)) \/ Step(p)

SpecSeq == Init /\ [][NextSeq]_vars

\* three concurrent deliveries of the messages that name ann@acme-corp.com
NextRace == \E p \in Racers : (\E pl \in RacePayloads : Receive(p, pl)) \/ Step(p)

SpecRace == Init /\ [][NextRace]_vars

(***************************************************************************)
(* The webhook route around handleInboundEmail, and a store that may fail. *)
(***************************************************************************)
\* POST, lines 26-41 of the route: the body is transformed; status 400 when
\* transformPayload returns null, status 500 from the catch when it throws,
\* otherwise handleInboundEmail is called with the payload
Post(p, body, generated) ==
  /\ pc[p] = "idle"
  /\ \A q \in 1..(p - 1) : pc[q] # "idle"
  /\ LET transformed == TransformResults[body, generated] IN
     IF transformed.outcome = "payload"
       THEN Receive(p, transformed.value)
       ELSE /\ pc' = [pc EXCEPT ![p] = "rejected"]
            /\ status' = [status EXCEPT ![p] =
                  IF transformed.outcome = "null" THEN 400 ELSE 500]
            /\ UNCHANGED <<store, payload, parsed, user, idx, contactToOrg, org,
                           existingContact, meetingId, result, error, thrown, dbCalls,
                           redelivery, applied>>

\* the awaited prisma calls of handleInboundEmail
PrismaCalls ==
  {"user.findUnique", "org.findUnique", "org.create", "contact.findUnique",
   "contact.update", "contact.create", "meeting.findFirst", "meeting.create",
   "emailMessage.create"}

\* an error of the store that is no constraint violation
ConnectionError == "Database connection failed"

\* the prisma call delivery p awaits rejects with an error of the store; only
\* prisma.emailMessage.create is inside try/catch
Fault(p) ==
  /\ pc[p] \in PrismaCalls
  /\ dbCalls' = [dbCalls EXCEPT ![p] = @ + 1]
  /\ IF pc[p] = "emailMessage.create"
       THEN Catch(p, ConnectionError)
       ELSE Throw(p, ConnectionError)
  /\ UNCHANGED <<store, payload, parsed, user, idx, contactToOrg, org, existingContact,
                 meetingId, redelivery, applied>>

\* webhook deliveries one after the other, with any body, against a store whose
\* calls may fail
NextWebhook ==
  \E p \in Deliveries :
    \/ Quiet /\ \E body \in Bodies : \E generated \in GeneratedIds : Post(p, body, generated)
    \/ Step(p)
    \/ Fault(p)

SpecWebhook == Init /\ [][NextWebhook]_vars

(***************************************************************************)
(* The parser functions called on their own, as parser.test.ts calls them: *)
(* one call of one function on one input.                                  *)
(***************************************************************************)
\* mailbox strings: bare addresses as in 'plain email format' and 'edge cases'
\* of parser.test.ts, and addresses with a display name or angle brackets
AddressInputs ==
  {"john@example.com", "JOHN@EXAMPLE.COM", "  john@example.com  ",
   "john@mail.example.com", "john+test@example.com", "a@b.io", "J@Example.com",
   "u_k1@in.cs.io", "jane@company.com",
   "John Doe <john@example.com>", "<john@example.com>",
   "\"John Doe\" <john@example.com>", "Ann <ANN@Acme-Corp.com>", "nobody"}

\* a payload with these participants
Mail(from, to, cc) == Payload("msg-123", from, to, cc, <<>>, "Test")

\* payloads for extractContacts: the ones of parser.test.ts (bare addresses),
\* and ones whose addresses stand in angle brackets, with repeated addresses,
\* repeated addresses in another case and under another name, and routing
\* addresses as sender, in To and in Cc
ExtractInputs ==
  {Mail("john@example.com", <<"john@example.com", "jane@company.com">>,
        <<"john@example.com">>),
   Mail("john@example.com", <<"u_k1@in.cs.io", "jane@company.com">>, <<>>),
   Mail("john@example.com", <<"jane@company.com">>, <<"u_k2@in.cs.io">>),
   Mail("a@b.io", <<"c@d.io">>, <<"e@f.io", "C@D.io">>),
   Mail("Ann <ann@a.io>", <<"<u_k1@in.cs.io>", "Bob <bob@b.io>">>, <<"Cy <cy@c.io>">>),
   Mail("Ann <ann@a.io>", <<"Bob <bob@b.io>", "Annie <ANN@A.io>">>,
        <<"Bobby <bob@b.io>", "<u_k1@in.cs.io>", "<dee@b.io>">>),
   Mail("<bob@b.io>", <<"Bob <bob@b.io>", "Cy <cy@c.io>", "<cy@c.io>">>,
        <<"Cyrus <Cy@C.io>">>),
   Mail("Robot <u_k1@in.cs.io>", <<"<u_k1@in.cs.io>", "<u_k2@in.cs.io>">>,
        <<"Ann <ann@a.io>">>),
   Mail("Ann <ann@a.io>", <<>>, <<>>)}

\* the phrases of the subjects of parser.test.ts
SubjectPhrases ==
  {"QBR", "qbr", "Quarterly Business Review", "Annual Review", "yearly review",
   "Weekly sync", "weekly check-in", "Weekly Check-In", "weekly checkin",
   "Weekly meeting", "Weekly call", "Deal Review", "pipeline review",
   "Monthly sync", "monthly meeting", "Monthly call", "Invoice"}

\* a phrase on its own, inside a sentence, and as part of a longer token
SubjectInputs ==
  { before \o phrase \o after :
      before \in {"", "Q3 ", "bi"}, phrase \in SubjectPhrases,
      after \in {"", " - Acme", "s"} }
  \cup {"", "QBR annual review", "Annual review of the weekly sync",
         "Weekly call: deal review", "Pipeline review, monthly call",
         "Monthly sync before the QBR", "Quarterly  business review"}

\* parseEmailAddress(address)
ApplyParseEmailAddress(address) ==
  /\ applied = NotApplied
  /\ applied' = [fn |-> "parseEmailAddress", input |-> address,
                 output |-> parseEmailAddress(address)]
  /\ UNCHANGED <<store, locals>>

\* extractContacts(payload)
ApplyExtractContacts(inbound) ==
  /\ applied = NotApplied
  /\ applied' = [fn |-> "extractContacts", input |-> inbound,
                 output |-> extractContacts(inbound)]
  /\ UNCHANGED <<store, locals>>

\* classifyMeeting(subject)
ApplyClassifyMeeting(subject) ==
  /\ applied = NotApplied
  /\ applied' = [fn |-> "classifyMeeting", input |-> subject,
                 output |-> classifyMeeting(subject)]
  /\ UNCHANGED <<store, locals>>

NextParser ==
  \/ \E address \in AddressInputs : ApplyParseEmailAddress(address)
  \/ \E inbound \in ExtractInputs : ApplyExtractContacts(inbound)
  \/ \E subject \in SubjectInputs : ApplyClassifyMeeting(subject)

SpecParser == Init /\ [][NextParser]_vars

(***************************************************************************)
(* Properties of the ingestion flow.                                       *)
(***************************************************************************)
\* the EmailMessage rows of one (userId, messageId)
EmailMessagesOf(userId, messageId) ==
  { k \in 1..Len(emailMessages) :
      emailMessages[k].userId = userId /\ emailMessages[k].messageId = messageId }

\* delivery p made a prisma call in this step
Called(p) == dbCalls'[p] # dbCalls[p]

\* the address of a mailbox string: what stands between "<" and ">", or the
\* whole string when there are no angle brackets
AddrSpec(raw) ==
  IF \E i \in 1..Len(raw) : Char(raw, i) = "<"
    THEN LET lt == CHOOSE i \in 1..Len(raw) :
                     Char(raw, i) = "<" /\ \A j \in (i + 1)..Len(raw) : Char(raw, j) # "<"
             gt == IF \E i \in (lt + 1)..Len(raw) : Char(raw, i) = ">"
                     THEN CHOOSE i \in (lt + 1)..Len(raw) :
                            Char(raw, i) = ">" /\ \A j \in (lt + 1)..(i - 1) : Char(raw, j) # ">"
                     ELSE Len(raw) + 1
         IN trim(toLowerCase(SubSeq(raw, lt + 1, gt - 1)))
    ELSE trim(toLowerCase(raw))

\* the routing shape: the local part starts with u_, the domain starts with in.
RoutingShape(a) ==
  /\ startsWith(a, "u_")
  /\ \E i \in 1..(Len(a) - 3) : Char(a, i) = "@" /\ SubSeq(a, i + 1, i + 3) = "in."

\* no address in Bcc and no address in To has the routing shape
NoRoutingAddress(pl) ==
  /\ \A i \in 1..Len(pl.to) : ~RoutingShape(AddrSpec(pl.to[i]))
  /\ \A i \in 1..Len(pl.bcc) : ~RoutingShape(AddrSpec(pl.bcc[i]))

UnroutablePayloads == { pl \in Payloads : NoRoutingAddress(pl) }

\* C1: two calls of handleInboundEmail, one after the other, with an identical
\* payload routed to an existing user: neither raises, and exactly one
\* EmailMessage row exists for that (userId, messageId).
C1_SequentialIdempotence ==
  \A p, q \in Deliveries :
    (/\ p # q
     /\ pc[p] = "done" /\ pc[q] = "done"
     /\ payload[p] = payload[q]
     /\ user[p] # Null)
    => /\ result[p] # "error"
       /\ result[q] # "error"
       /\ Cardinality(EmailMessagesOf(user[p], payload[p].messageId)) = 1

\* the second of two identical calls met the stored row and returned
C1_Witness ==
  \E p, q \in Deliveries :
    /\ p # q
    /\ pc[p] = "done" /\ result[p] = "stored"
    /\ pc[q] = "done" /\ result[q] = "duplicate"
    /\ payload[p] = payload[q]
    /\ Cardinality(EmailMessagesOf(user[p], payload[p].messageId)) = 1

\* C2: once an EmailMessage row exists for (userId, messageId), a later call
\* carrying that messageId and routed to that user raises no error, and no
\* prisma call it makes creates or modifies an Org, Contact, Meeting or
\* EmailMessage row.
C2_RedeliveryIsNoOp ==
  [][\A p \in Deliveries :
       (redelivery[p] /\ Called(p)) => (store' = store /\ result'[p] # "error")]_vars

\* C3: two deliveries of the same payload, interleaved in any way at their
\* prisma calls: both return (stored, or duplicate), and exactly one
\* EmailMessage row exists for that (userId, messageId).
C3_ConcurrentIdempotence ==
  \A p, q \in Deliveries :
    (/\ p # q
     /\ pc[p] = "done" /\ user[p] # Null
     /\ pc[q] = "done" /\ user[q] # Null
     /\ payload[p] = payload[q])
    => /\ {result[p], result[q]} \subseteq {"stored", "duplicate"}
       /\ Cardinality(EmailMessagesOf(user[p], payload[p].messageId)) = 1

\* C4: a payload with no routing-shaped address in Bcc or To: the call has
\* returned without raising as soon as it was received, and has made no prisma
\* call at all (no user lookup, no read, no write).
C4_UnroutableIsDropped ==
  \A p \in Deliveries :
    (pc[p] # "idle" /\ payload[p] \in UnroutablePayloads)
    => /\ pc[p] = "done"
       /\ result[p] = "unroutable"
       /\ dbCalls[p] = 0

\* an unroutable payload was dropped while another delivery had stored rows
C4_Witness ==
  \E p \in Deliveries :
    /\ pc[p] = "done"
    /\ payload[p] \in UnroutablePayloads
    /\ result[p] = "unroutable"
    /\ dbCalls[p] = 0
    /\ Len(emailMessages) > 0

\* the routing address found in the payload of delivery p is owned by no user
UnknownRouting(p) ==
  /\ pc[p] # "idle"
  /\ parsed[p].bccAddress # Null
  /\ \A u \in USERS : u.bccAddress # parsed[p].bccAddress

\* C5: when the routing address is owned by no user, the one prisma call the
\* delivery makes (the user lookup) leaves every Org, Contact, Meeting and
\* EmailMessage row as it was, and the call returns without raising.
C5_UnknownAddressIsDropped ==
  [][\A p \in Deliveries :
       (UnknownRouting(p) /\ Called(p))
       => (store' = store /\ pc'[p] = "done" /\ result'[p] = "no-user")]_vars

\* a delivery to an unknown routing address returned after the user lookup
C5_Witness ==
  \E p \in Deliveries :
    /\ UnknownRouting(p)
    /\ pc[p] = "done"
    /\ result[p] = "no-user"
    /\ dbCalls[p] = 1

\* a bare address string: no display name, no angle brackets
IsBare(raw) == \A i \in 1..Len(raw) : Char(raw, i) \notin {"<", ">", "\"", " "}

\* the emails of the contacts extractContacts returned to delivery p
ContactEmails(p) ==
  { parsed[p].extractedContacts[k].email : k \in 1..Len(parsed[p].extractedContacts) }

\* C6: a payload without bcc whose To list holds a bare routing address and a
\* bare ordinary address: the user is looked up by exactly that routing
\* address, the ordinary address is among the extracted contacts and the
\* routing address is not.
C6_BareToRouting ==
  \A p \in Deliveries :
    (pc[p] # "idle" /\ Len(payload[p].bcc) = 0)
    => \A i, j \in 1..Len(payload[p].to) :
         LET routing  == payload[p].to[i]
             ordinary == payload[p].to[j]
         IN (/\ IsBare(routing) /\ RoutingShape(routing)
             /\ IsBare(ordinary) /\ ~RoutingShape(ordinary)
             /\ CountChar(ordinary, "@") = 1)
            => /\ parsed[p].bccAddress = routing
               /\ ordinary \in ContactEmails(p)
               /\ routing \notin ContactEmails(p)

\* every participant the parser extracts from a payload of the catalog
Participants ==
  UNION { { Parser[pl].extractedContacts[k] : k \in 1..Len(Parser[pl].extractedContacts) } :
          pl \in Payloads }

\* the participants whose domain is personal or could not be extracted
PersonalParticipants ==
  { c \in Participants : c.domain = Null \/ c.domain \in PERSONAL_DOMAINS }

CorporateParticipants == Participants \ PersonalParticipants

PersonalEmails == { c.email : c \in PersonalParticipants }

\* C7: no Org row has a domain of the personal-domain set, and the Contact of
\* every participant whose domain is personal, or could not be extracted, has
\* orgId = null.
C7_NoOrgForPersonalDomain ==
  /\ \A k \in 1..Len(orgs) : orgs[k].domain \notin PERSONAL_DOMAINS
  /\ \A k \in 1..Len(contacts) :
       contacts[k].email \in PersonalEmails => contacts[k].orgId = Null

\* contacts of a personal domain and of no domain are stored beside a contact
\* that has an org
C7_Witness ==
  /\ \E k \in 1..Len(contacts) :
       contacts[k].email \in { c.email : c \in { d \in Participants : d.domain = Null } }
  /\ \E k \in 1..Len(contacts) :
       contacts[k].email \in { c.email : c \in { d \in Participants :
                                                   d.domain \in PERSONAL_DOMAINS } }
  /\ \E k \in 1..Len(contacts) : contacts[k].orgId # Null

\* name is derived from domain: the known TLD suffix stripped, "-" and "_"
\* replaced by spaces, the first letter of each word in upper case
IsDerivedName(name, domain) ==
  \E t \in TLD_SUFFIXES \cup {""} :
    /\ endsWith(domain, t)
    /\ t = "" => \A u \in TLD_SUFFIXES : ~endsWith(domain, u)
    /\ LET base == SubSeq(domain, 1, Len(domain) - Len(t)) IN
       /\ Len(name) = Len(base)
       /\ \A i \in 1..Len(base) :
            Char(name, i) =
              IF Char(base, i) \in {"-", "_"} THEN " "
              ELSE IF i = 1 \/ Char(base, i - 1) \in {"-", "_"}
                THEN UpperOf(Char(base, i))
              ELSE Char(base, i)

\* the (domain, name) pairs of the corporate participants whose name is derived
\* from the domain
DerivedOrgs ==
  { o \in { [domain |-> c.domain, name |-> formatOrgName(c.domain)] :
              c \in CorporateParticipants } :
      IsDerivedName(o.name, o.domain) }

\* the corporate participants upsertOrg has returned for in delivery p
Processed(p) ==
  { c \in CorporateParticipants :
      \E k \in 1..Len(parsed[p].extractedContacts) :
        /\ parsed[p].extractedContacts[k] = c
        /\ k < idx[p] \/ (k = idx[p] /\ org[p] # Null) }

\* C8: once upsertOrg has returned to a delivery for a participant of a
\* corporate domain, exactly one Org row exists for (user, domain), also when
\* several participants share the domain; the Org rows are the first sights
\* and nothing else (as many rows as distinct (user, domain) pairs met); every
\* Org name is derived from its domain; and every Contact of a corporate
\* participant links to the Org of its user and domain.
C8_FirstSightCreatesOrg ==
  /\ \A p \in Deliveries :
       (pc[p] # "idle" /\ user[p] # Null)
       => \A c \in Processed(p) :
            Cardinality({ k \in 1..Len(orgs) :
                            orgs[k].userId = user[p] /\ orgs[k].domain = c.domain }) = 1
  /\ Len(orgs) =
       Cardinality(UNION { { <<user[p], c.domain>> : c \in Processed(p) } :
                           p \in { q \in Deliveries : pc[q] # "idle" /\ user[q] # Null } })
  /\ \A k \in 1..Len(orgs) :
       [domain |-> orgs[k].domain, name |-> orgs[k].name] \in DerivedOrgs
  /\ \A k \in 1..Len(contacts) : \A c \in CorporateParticipants :
       contacts[k].email = c.email
       => /\ contacts[k].orgId # Null
          /\ orgs[RowIndex(contacts[k].orgId)].userId = contacts[k].userId
          /\ orgs[RowIndex(contacts[k].orgId)].domain = c.domain

\* a message with two participants of one new domain was stored: one Org row
\* for the domain, both Contacts linked to it
C8_Witness ==
  \E p \in Deliveries :
    /\ pc[p] = "done" /\ result[p] = "stored"
    /\ \E c, d \in Processed(p) : c.email # d.email /\ c.domain = d.domain
    /\ \E k \in 1..Len(orgs) :
         /\ orgs[k].userId = user[p]
         /\ Cardinality({ h \in 1..Len(contacts) : contacts[h].orgId = RowId(k) }) >= 2

\* C9: no two Org rows have the same (userId, domain) and no two Contact rows
\* have the same (userId, email), whatever the interleaving.
C9_KeysAreUnique ==
  /\ \A k, h \in 1..Len(orgs) :
       (orgs[k].userId = orgs[h].userId /\ orgs[k].domain = orgs[h].domain) => k = h
  /\ \A k, h \in 1..Len(contacts) :
       (contacts[k].userId = contacts[h].userId /\ contacts[k].email = contacts[h].email)
       => k = h

\* two deliveries raced to create one row and the second create was refused
C9_Witness ==
  \E p \in Deliveries :
    /\ pc[p] = "done" /\ result[p] = "error"
    /\ IsDuplicateError(error[p])
    /\ Len(orgs) > 0

\* deliveries p and q both hold a participant of one corporate domain or of
\* one email
SharesNewRow(p, q) ==
  \E i \in 1..Len(parsed[p].extractedContacts) :
    \E j \in 1..Len(parsed[q].extractedContacts) :
      LET c == parsed[p].extractedContacts[i]
          d == parsed[q].extractedContacts[j]
      IN c.email = d.email \/ (c \in CorporateParticipants /\ c.domain = d.domain)

\* C10: two deliveries with different messageIds for one user that both need
\* the same Org or the same Contact: both return without error and both
\* EmailMessage rows are stored, whatever the interleaving.
C10_LostRaceIsRecovered ==
  \A p, q \in Deliveries :
    (/\ p # q
     /\ pc[p] = "done" /\ user[p] # Null
     /\ pc[q] = "done" /\ user[q] = user[p]
     /\ payload[p].messageId # payload[q].messageId
     /\ SharesNewRow(p, q))
    => /\ result[p] = "stored"
       /\ result[q] = "stored"
       /\ EmailMessagesOf(user[p], payload[p].messageId) # {}
       /\ EmailMessagesOf(user[q], payload[q].messageId) # {}

\* rows[k] is the only row of the table the step changed
OnlyRowChanged(rows, rowsAfter, k) ==
  /\ Len(rowsAfter) = Len(rows)
  /\ \A h \in 1..Len(rows) : h # k => rowsAfter[h] = rows[h]

\* C11: deliveries one after the other.  When upsertContact reads a Contact
\* of (userId, email) whose name is null and the participant carries a display
\* name, it goes on to the update; the update meets the name still null, sets it
\* to that display name, and changes no other field, no other Contact and no
\* other table.
C11_NameBackfill ==
  [][\A p \in Deliveries :
       /\ (pc[p] = "contact.findUnique" /\ Called(p))
          => \A k \in 1..Len(contacts) :
               (/\ contacts[k].userId = user[p]
                /\ contacts[k].email = Contact(p).email
                /\ contacts[k].name = Null
                /\ Contact(p).name # Null)
               => /\ pc'[p] = "contact.update"
                  /\ existingContact'[p] = RowId(k)
                  /\ store' = store
       /\ (pc[p] = "contact.update" /\ Called(p))
          => LET k == RowIndex(existingContact[p]) IN
             /\ contacts[k].userId = user[p]
             /\ contacts[k].email = Contact(p).email
             /\ contacts[k].name = Null
             /\ Contact(p).name # Null
             /\ contacts'[k] = [contacts[k] EXCEPT !.name = Contact(p).name]
             /\ OnlyRowChanged(contacts, contacts', k)
             /\ <<orgs, meetings, emailMessages>>' = <<orgs, meetings, emailMessages>>
             /\ result'[p] # "error"]_vars

\* ann was stored without a name by the first message, and the second message,
\* which calls her Ann, has been processed: the row carries the name and still
\* its org
C11_Witness ==
  /\ pc[1] = "done" /\ result[1] = "stored" /\ payload[1] = PayloadPersonal
  /\ pc[2] = "done" /\ result[2] = "stored" /\ payload[2] = PayloadQbr
  /\ \E k \in 1..Len(contacts) :
       /\ contacts[k].userId = "user-1"
       /\ contacts[k].email = "ann@acme-corp.com"
       /\ contacts[k].name = "Ann"
       /\ contacts[k].orgId # Null

\* C12: once the name of a Contact row is not null, no step of any delivery,
\* however the deliveries interleave, changes it to another value.
C12_NameNeverOverwritten ==
  [][\A k \in 1..Len(contacts) :
       contacts[k].name # Null => contacts'[k].name = contacts[k].name]_vars

\* the Meeting rows of a user whose title equals the subject ignoring case
MeetingsTitled(userId, subject) ==
  { k \in 1..Len(meetings) :
      /\ meetings[k].userId = userId
      /\ toLowerCase(meetings[k].title) = toLowerCase(subject) }

\* the meetingId values of the EmailMessage rows of (userId, messageId)
MeetingIdsOf(userId, messageId) ==
  { emailMessages[k].meetingId : k \in EmailMessagesOf(userId, messageId) }

\* C13: deliveries one after the other.  When two stored messages of one user
\* have subjects that are equal ignoring case and classify as a meeting, there
\* is exactly one Meeting row of that user with the title (the second delivery
\* created none) and both EmailMessage rows carry its id.
C13_MeetingReuse ==
  \A p, q \in Deliveries :
    (/\ p # q
     /\ pc[p] = "done" /\ result[p] = "stored"
     /\ pc[q] = "done" /\ result[q] = "stored"
     /\ user[p] = user[q]
     /\ parsed[p].meetingType # Null
     /\ toLowerCase(payload[p].subject) = toLowerCase(payload[q].subject))
    => /\ Cardinality(MeetingsTitled(user[p], payload[p].subject)) = 1
       /\ \A k \in MeetingsTitled(user[p], payload[p].subject) :
            /\ MeetingIdsOf(user[p], payload[p].messageId) = {RowId(k)}
            /\ MeetingIdsOf(user[q], payload[q].messageId) = {RowId(k)}

\* "Q4 QBR" was stored first and "q4 qbr" after it, for the same user, on one
\* Meeting row
C13_Witness ==
  /\ pc[1] = "done" /\ result[1] = "stored" /\ payload[1] = PayloadQbr
  /\ pc[2] = "done" /\ result[2] = "stored" /\ payload[2] = PayloadPersonal
  /\ user[1] = user[2]
  /\ payload[1].subject # payload[2].subject
  /\ Len(meetings) = 1
  /\ MeetingIdsOf(user[2], payload[2].messageId) = {RowId(1)}

\* the subjects of the catalog, classified and lower-cased once
Subjects == { pl.subject : pl \in Payloads \cup TransformedPayloads \cup RacePayloads }
ClassifiedSubject == [subject \in Subjects |-> classifyMeeting(subject)]
LowerSubject == [subject \in Subjects |-> toLowerCase(subject)]

\* C14: every stored EmailMessage has a meetingId exactly when its subject
\* classifies as a meeting, and then the id is that of a Meeting row of the same
\* user whose title equals the subject ignoring case; and no Meeting row has a
\* title that classifies as null (such a delivery creates none).
C14_LinkageMatchesClassification ==
  /\ \A k \in 1..Len(emailMessages) :
       LET email == emailMessages[k] IN
       /\ (email.meetingId # Null) = (ClassifiedSubject[email.subject] # Null)
       /\ email.meetingId # Null
          => /\ RowIndex(email.meetingId) \in 1..Len(meetings)
             /\ meetings[RowIndex(email.meetingId)].userId = email.userId
             /\ LowerSubject[meetings[RowIndex(email.meetingId)].title]
                  = LowerSubject[email.subject]
  /\ \A k \in 1..Len(meetings) :
       /\ ClassifiedSubject[meetings[k].title] # Null
       /\ meetings[k].meetingType = ClassifiedSubject[meetings[k].title]

\* a message with a meeting subject and a message without one are both stored
C14_Witness ==
  /\ \E k \in 1..Len(emailMessages) :
       emailMessages[k].meetingId # Null /\ ClassifiedSubject[emailMessages[k].subject] = "QBR"
  /\ \E k \in 1..Len(emailMessages) :
       emailMessages[k].meetingId = Null /\ ClassifiedSubject[emailMessages[k].subject] = Null

\* the error prisma.emailMessage.create raises for a repeated (userId, messageId)
DuplicateMessageError == UniqueConstraintError("EmailMessage (userId, messageId)")

\* C15: a prisma call of a delivery that raises anything but the uniqueness
\* violation of EmailMessage (userId, messageId) ends the call of
\* handleInboundEmail with that very error, whichever call it was (a read or a
\* write of Org, Contact, Meeting, the user lookup, or the EmailMessage
\* create); the duplicate-message error alone ends it with a normal return;
\* and a delivery makes no further prisma call once one has raised (no retry).
C15_OnlyDuplicateSwallowed ==
  [][\A p \in Deliveries :
       Called(p)
       => /\ thrown[p] = Null
          /\ dbCalls'[p] = dbCalls[p] + 1
          /\ (thrown'[p] # Null /\ thrown'[p] # DuplicateMessageError)
             => /\ pc'[p] = "done"
                /\ result'[p] = "error"
                /\ error'[p] = thrown'[p]
                /\ store' = store
          /\ thrown'[p] = DuplicateMessageError
             => /\ pc[p] = "emailMessage.create"
                /\ pc'[p] = "done"
                /\ result'[p] = "duplicate"
                /\ store' = store]_vars

\* the store failed in prisma.emailMessage.create of a message with a meeting,
\* after Contacts had been written, and the error left the handler
C15_Witness ==
  \E p \in Deliveries :
    /\ pc[p] = "done" /\ result[p] = "error"
    /\ thrown[p] = ConnectionError /\ error[p] = ConnectionError
    /\ meetingId[p] # Null
    /\ Len(contacts) > 0
    /\ EmailMessagesOf(user[p], payload[p].messageId) = {}

\* C16: deliveries one after the other against a store that may fail.  When a
\* delivery of a known user ended with an error of the store, whichever call
\* after the user lookup failed and whatever Org, Contact or Meeting rows it
\* had written before, and a later delivery of the same payload began while
\* no EmailMessage of the message was stored and met no failure of the store,
\* the later delivery returned with its EmailMessage stored, exactly one
\* EmailMessage row exists for the message, and no Org key, Contact key or
\* Meeting title of a user is stored twice.
C16_RetryAfterPartialFailure ==
  \A p, q \in Deliveries :
    (/\ p < q
     /\ pc[p] = "done" /\ result[p] = "error" /\ thrown[p] = ConnectionError
     /\ user[p] # Null
     /\ pc[q] = "done" /\ thrown[q] # ConnectionError
     /\ payload[q] = payload[p]
     /\ ~redelivery[q])
    => /\ result[q] = "stored"
       /\ error[q] = Null
       /\ Cardinality(EmailMessagesOf(user[q], payload[q].messageId)) = 1
       /\ \A k, h \in 1..Len(orgs) :
            (orgs[k].userId = orgs[h].userId /\ orgs[k].domain = orgs[h].domain) => k = h
       /\ \A k, h \in 1..Len(contacts) :
            (contacts[k].userId = contacts[h].userId
             /\ contacts[k].email = contacts[h].email) => k = h
       /\ \A k, h \in 1..Len(meetings) :
            (meetings[k].userId = meetings[h].userId
             /\ LowerSubject[meetings[k].title] = LowerSubject[meetings[h].title]) => k = h

\* the first delivery wrote an Org, its Contacts and a Meeting and then failed
\* in prisma.emailMessage.create; the retry stored the message on those rows
C16_Witness ==
  /\ pc[1] = "done" /\ result[1] = "error" /\ thrown[1] = ConnectionError
  /\ meetingId[1] # Null
  /\ pc[2] = "done" /\ result[2] = "stored" /\ thrown[2] = Null
  /\ payload[2] = payload[1]
  /\ meetingId[2] = meetingId[1]
  /\ Len(orgs) = 1 /\ Len(contacts) = 2 /\ Len(meetings) = 1 /\ Len(emailMessages) = 1

\* C17: POST answers 200 when handleInboundEmail returned (stored, dropped as
\* unroutable or unowned, or duplicate) and 500 when it raised; and a body that
\* was not transformed into a payload is answered 400, handleInboundEmail not
\* having been called (no prisma call, no outcome of the handler).
C17_StatusMapping ==
  \A p \in Deliveries :
    /\ pc[p] = "done"
       => /\ result[p] \in {"stored", "unroutable", "no-user", "duplicate", "error"}
          /\ status[p] = IF result[p] = "error" THEN 500 ELSE 200
    /\ pc[p] = "rejected"
       => /\ status[p] = 400
          /\ result[p] = Null
          /\ dbCalls[p] = 0
    /\ pc[p] \notin {"done", "rejected"} => status[p] = NoStatus

\* C18: in every reachable state, whatever the interleaving, the orgId of a
\* Contact, when set, is the id of an existing Org row with the Contact's
\* userId, and the orgId of a Meeting, when set, is the id of an existing Org
\* row with the Meeting's userId.
C18_SameOwnerReferences ==
  /\ \A k \in 1..Len(contacts) :
       contacts[k].orgId # Null
       => /\ RowIndex(contacts[k].orgId) \in 1..Len(orgs)
          /\ orgs[RowIndex(contacts[k].orgId)].userId = contacts[k].userId
  /\ \A k \in 1..Len(meetings) :
       meetings[k].orgId # Null
       => /\ RowIndex(meetings[k].orgId) \in 1..Len(orgs)
          /\ orgs[RowIndex(meetings[k].orgId)].userId = meetings[k].userId

\* two users each own an Org of the same domain, each with a Contact and a
\* Meeting that reference it
C18_Witness ==
  \E a, b \in 1..Len(orgs) :
    /\ orgs[a].userId # orgs[b].userId
    /\ orgs[a].domain = orgs[b].domain
    /\ \A o \in {a, b} :
         /\ \E k \in 1..Len(contacts) : contacts[k].orgId = RowId(o)
         /\ \E k \in 1..Len(meetings) : meetings[k].orgId = RowId(o)

MeetingsFor(p) ==
  { k \in 1..Len(meetings) :
      /\ meetings[k].userId = user[p]
      /\ LowerSubject[meetings[k].title] = LowerSubject[parsed[p].parsedEmail.subject] }

\* C20: when upsertMeeting looks for a Meeting and a row of the user with the
\* title, ignoring case, exists, it returns such a row and creates nothing;
\* and no step of any delivery changes the title, meetingType or orgId of a
\* stored Meeting, whatever the email that met it classifies to or resolves.
C20_ExistingMeetingUnchanged ==
  [][/\ Len(meetings') >= Len(meetings)
     /\ \A k \in 1..Len(meetings) : meetings'[k] = meetings[k]
     /\ \A p \in Deliveries :
          (pc[p] = "meeting.findFirst" /\ Called(p) /\ MeetingsFor(p) # {})
          => /\ meetings' = meetings
             /\ pc'[p] = "emailMessage.create"
             /\ RowIndex(meetingId'[p]) \in MeetingsFor(p)]_vars

\* a stored message is linked to a Meeting that another message created: the
\* row keeps its own title and an orgId other than the one this email resolved
C20_Witness ==
  \E p \in Deliveries :
    /\ pc[p] = "done" /\ result[p] = "stored"
    /\ meetingId[p] # Null
    /\ Len(meetings) = 1
    /\ meetings[RowIndex(meetingId[p])].title # parsed[p].parsedEmail.subject
    /\ meetings[RowIndex(meetingId[p])].orgId # PrimaryOrgId(p)

\* the Contact rows delivery p would look up for the participant at hand
ContactsMet(p) == ContactWhere(contacts, user[p], Contact(p).email)

\* C21: no step of any delivery, however the deliveries interleave, changes
\* the orgId of a stored Contact, be it null or set; and a delivery whose
\* upsertContact finds the Contact of (userId, email) creates no Contact.
C21_OrgIdFirstWriteWins ==
  [][/\ Len(contacts') >= Len(contacts)
     /\ \A k \in 1..Len(contacts) : contacts'[k].orgId = contacts[k].orgId
     /\ \A p \in Deliveries :
          (pc[p] = "contact.findUnique" /\ Called(p) /\ ContactsMet(p) # {})
          => /\ Len(contacts') = Len(contacts)
             /\ pc'[p] # "contact.create"]_vars

\* ann's Contact was created with her Org by the message that names her
\* without a display name, and the later message has set her name: the row
\* still carries the Org, and pat's Contact still carries none
C21_Witness ==
  /\ \A p \in Deliveries : pc[p] = "done" /\ result[p] = "stored"
  /\ payload[1] = PayloadPersonal /\ payload[2] = PayloadQbr
  /\ Len(contacts) = 3
  /\ contacts[1].email = "pat@gmail.com" /\ contacts[1].orgId = Null
  /\ contacts[2].email = "ann@acme-corp.com" /\ contacts[2].name = "Ann"
  /\ contacts[2].orgId = RowId(1)
  /\ existingContact[2] = Null

\* the first routing-shaped address of a list of mailbox strings, or null
FirstRouting(addrs) ==
  IF \E i \in 1..Len(addrs) : RoutingShape(AddrSpec(addrs[i]))
    THEN AddrSpec(addrs[CHOOSE i \in 1..Len(addrs) :
                          /\ RoutingShape(AddrSpec(addrs[i]))
                          /\ \A j \in 1..(i - 1) : ~RoutingShape(AddrSpec(addrs[j]))])
    ELSE Null

\* the routing address of a payload: the first one of Bcc, else the first one of To
RoutingAddress(pl) ==
  IF FirstRouting(pl.bcc) # Null THEN FirstRouting(pl.bcc) ELSE FirstRouting(pl.to)

RoutingOf == [pl \in Payloads |-> RoutingAddress(pl)]

\* C22: the address a delivery looks its user up by is the first
\* routing-shaped address of the Bcc list when there is one, and otherwise the
\* first routing-shaped address of the To list; a delivery whose payload has
\* such an address makes the user lookup as its first prisma call, with that
\* address, and makes it once.
C22_RoutingAddressSelection ==
  \A p \in Deliveries :
    (pc[p] # "idle" /\ RoutingOf[payload[p]] # Null)
    => /\ parsed[p].bccAddress = RoutingOf[payload[p]]
       /\ pc[p] = "user.findUnique" => dbCalls[p] = 0
       /\ pc[p] # "user.findUnique"
          => /\ dbCalls[p] >= 1
             /\ user[p] = FindUser(RoutingOf[payload[p]])

\* the display name of a mailbox string: what stands before "<", without
\* quotes and surrounding blanks; null when there is none
DisplayName(raw) ==
  IF \E i \in 1..Len(raw) : Char(raw, i) = "<"
    THEN LET lt == CHOOSE i \in 1..Len(raw) :
                     Char(raw, i) = "<" /\ \A j \in (i + 1)..Len(raw) : Char(raw, j) # "<"
             head == trim(SubSeq(raw, 1, lt - 1))
             bare == IF Len(head) >= 2 /\ Char(head, 1) = "\"" /\ Char(head, Len(head)) = "\""
                       THEN trim(SubSeq(head, 2, Len(head) - 1))
                       ELSE head
         IN IF bare = "" THEN Null ELSE bare
    ELSE Null

\* the participants of a list of mailbox strings, in order, added to those
\* already listed: routing-shaped addresses and addresses already listed are
\* left out
RECURSIVE ListedAfter(_, _)
ListedAfter(listed, addrs) ==
  IF Len(addrs) = 0 THEN listed
  ELSE LET email == AddrSpec(addrs[1])
           out   == \/ RoutingShape(email)
                    \/ \E i \in 1..Len(listed) : listed[i].email = email
       IN ListedAfter(IF out THEN listed
                      ELSE Append(listed, [email |-> email, name |-> DisplayName(addrs[1])]),
                      Tail(addrs))

\* sender first, then To, then Cc
ListedParticipants(pl) ==
  ListedAfter(ListedAfter(<<[email |-> AddrSpec(pl.from), name |-> DisplayName(pl.from)]>>,
                          pl.to),
              pl.cc)

\* C23: extractContacts returns the sender first (always), then the To
\* addresses, then the Cc addresses, each in payload order, without the
\* routing-shaped addresses of To and Cc and without any address whose
\* lower-cased email came earlier; no two entries have the same email, and an
\* entry carries the name of the first occurrence of its address.
C23_ContactExtraction ==
  applied.fn = "extractContacts"
  => LET listed == ListedParticipants(applied.input) IN
     /\ Len(applied.output) = Len(listed)
     /\ \A k \in 1..Len(listed) :
          /\ applied.output[k].email = listed[k].email
          /\ applied.output[k].name = listed[k].name
     /\ \A k, h \in 1..Len(applied.output) :
          applied.output[k].email = applied.output[h].email => k = h

\* the id of the Org row the store holds for the first extracted participant
\* of delivery p, null when the participant's domain is personal or missing
SenderOrgId(p) ==
  LET sender == parsed[p].extractedContacts[1] IN
  IF sender.domain = Null \/ sender.domain \in PERSONAL_DOMAINS THEN Null
  ELSE RowId(CHOOSE k \in 1..Len(orgs) :
               orgs[k].userId = user[p] /\ orgs[k].domain = sender.domain)

\* C24: the step in which a delivery creates a Meeting appends one row whose
\* orgId is the Org of the delivery's user and of the domain of the first
\* extracted participant (the sender), and null when that domain is personal
\* or missing, whatever Orgs the other participants resolved to.
C24_MeetingOrgFromSender ==
  [][\A p \in Deliveries :
       (pc[p] = "meeting.create" /\ Called(p))
       => /\ Len(meetings') = Len(meetings) + 1
          /\ meetings'[Len(meetings')].userId = user[p]
          /\ meetings'[Len(meetings')].orgId = SenderOrgId(p)
          /\ meetingId'[p] = RowId(Len(meetings'))]_vars

\* a message from a personal address to ann of acme-corp created a Meeting
\* without an Org although ann has one, and a message from ann's address
\* created another user's Meeting with that user's Org
C24_Witness ==
  /\ pc[1] = "done" /\ result[1] = "stored" /\ payload[1] = PayloadPersonal
  /\ pc[2] = "done" /\ result[2] = "stored" /\ payload[2] = PayloadOtherUser
  /\ Len(meetings) = 2
  /\ meetings[1].orgId = Null /\ meetings[1].userId = "user-1"
  /\ \E k \in 1..Len(contacts) : contacts[k].userId = "user-1" /\ contacts[k].orgId # Null
  /\ meetings[2].orgId # Null /\ meetings[2].userId = "user-2"
  /\ orgs[RowIndex(meetings[2].orgId)].userId = "user-2"

\* the most recently created of the rows at these positions
Newest(rows) == CHOOSE k \in rows : \A h \in rows : h <= k

\* C25: when prisma.meeting.findFirst of a delivery meets several Meeting rows
\* of its user whose title equals the subject ignoring case, the row
\* upsertMeeting returns is the most recently created of them.
C25_LookupPicksNewest ==
  [][\A p \in Racers :
       (pc[p] = "meeting.findFirst" /\ Called(p) /\ MeetingsFor(p) # {})
       => meetingId'[p] = RowId(Newest(MeetingsFor(p)))]_vars

\* local@domain, perhaps with blanks around it: no display name, no quotes,
\* no angle brackets
IsBareAddress(raw) ==
  LET t == trim(raw) IN
  /\ IsBare(t)
  /\ CountChar(t, "@") = 1
  /\ Len(t) >= 3 /\ Char(t, 1) # "@" /\ Char(t, Len(t)) # "@"

\* C26: for a bare address local@domain parseEmailAddress returns name = null
\* and the whole input, lower-cased and trimmed, as email.
C26_BareAddressParse ==
  (applied.fn = "parseEmailAddress" /\ IsBareAddress(applied.input))
  => applied.output = [name |-> Null, email |-> trim(toLowerCase(applied.input))]

\* the keyword phrases of each category, in the order of priority
CategoryPhrases ==
  << [category |-> "QBR", phrases |-> {<<"qbr">>, QBR_PHRASE}],
     [category |-> "ANNUAL_REVIEW",
      phrases |-> {<<"annual", "review">>, <<"yearly", "review">>}],
     [category |-> "WEEKLY_CHECKIN", phrases |-> { <<"weekly", w>> : w \in CADENCE_WORDS }],
     [category |-> "DEAL_REVIEW",
      phrases |-> {<<"deal", "review">>, <<"pipeline", "review">>}],
     [category |-> "OTHER", phrases |-> { <<"monthly", w>> : w \in CADENCE_WORDS }] >>

\* a phrase of the k-th category occurs in the subject, ignoring case, as
\* whole words
CategoryOccurs(subject, k) ==
  \E phrase \in CategoryPhrases[k].phrases : PhraseFound(subject, phrase, TRUE)

\* C27: classifyMeeting returns the first category, in the order QBR,
\* ANNUAL_REVIEW, WEEKLY_CHECKIN, DEAL_REVIEW, OTHER, one of whose keyword
\* phrases occurs in the subject ignoring case and as whole words, and null
\* when no category has one.
C27_Classification ==
  applied.fn = "classifyMeeting"
  => /\ \A k \in 1..Len(CategoryPhrases) :
          (/\ CategoryOccurs(applied.input, k)
           /\ \A h \in 1..(k - 1) : ~CategoryOccurs(applied.input, h))
          => applied.output = CategoryPhrases[k].category
     /\ (\A k \in 1..Len(CategoryPhrases) : ~CategoryOccurs(applied.input, k))
          => applied.output = Null

\* C28: in every reachable state, however concurrent deliveries interleave,
\* no two Meeting rows have the same userId and titles that are equal
\* ignoring case.
C28_MeetingTitleUnique ==
  \A k, h \in 1..Len(meetings) :
    (/\ meetings[k].userId = meetings[h].userId
     /\ toLowerCase(meetings[k].title) = toLowerCase(meetings[h].title))
    => k = h

\* every participant extracted by delivery p has a Contact row of the user,
\* and every non-personal participant domain an Org row of the user
ParticipantsStored(p) ==
  \A k \in 1..Len(parsed[p].extractedContacts) :
    LET c == parsed[p].extractedContacts[k]
    IN /\ ContactWhere(contacts, user[p], c.email) # {}
       /\ c \in CorporateParticipants => OrgWhere(orgs, user[p], c.domain) # {}

\* the delivery that stored the k-th EmailMessage row
StoredBy(k) ==
  { p \in Deliveries :
      /\ pc[p] = "done" /\ result[p] = "stored"
      /\ user[p] = emailMessages[k].userId
      /\ parsed[p].parsedEmail.messageId = emailMessages[k].messageId }

\* each EmailMessage row was stored by a delivery whose participants all have
\* their Contact and Org rows
RowsComplete ==
  \A k \in 1..Len(emailMessages) :
    /\ StoredBy(k) # {}
    /\ \A p \in StoredBy(k) : ParticipantsStored(p)

\* C29: the EmailMessage is written last.  After every step, each
\* EmailMessage row belongs to a delivery for which a Contact row of the user
\* exists for every extracted participant and an Org row of the user for
\* every non-personal participant domain; the emailMessage.create call of a
\* delivery ends the delivery and writes no Org, Contact or Meeting row, and a
\* delivery that has ended makes no further call.
C29_EmailMessageWrittenLast ==
  [][/\ RowsComplete'
     /\ \A p \in Deliveries :
          /\ (pc[p] = "emailMessage.create" /\ Called(p))
             => /\ pc'[p] = "done"
                /\ <<orgs, contacts, meetings>>' = <<orgs, contacts, meetings>>
          /\ pc[p] = "done"
             => /\ ~Called(p)
                /\ pc'[p] = "done"]_vars

\* a message with a corporate and a personal participant and a meeting is
\* stored while another delivery is still in progress
C29_Witness ==
  \E p, q \in Deliveries :
    /\ pc[p] = "done" /\ result[p] = "stored"
    /\ pc[q] \notin {"idle", "done"}
    /\ payload[p] = PayloadPersonal
    /\ meetingId[p] # Null
    /\ Len(emailMessages) = 1

\* a step changed or created only rows of this owner
OnlyOwnRows(rows, rowsAfter, owner) ==
  /\ Len(rowsAfter) >= Len(rows)
  /\ \A k \in 1..Len(rows) :
       rowsAfter[k] # rows[k] => rows[k].userId = owner /\ rowsAfter[k].userId = owner
  /\ \A k \in (Len(rows) + 1)..Len(rowsAfter) : rowsAfter[k].userId = owner

\* C30: tenant isolation.  Every call of a delivery whose routing address is
\* the bccAddress of user U creates or changes only rows whose userId is U:
\* the Org, Contact, Meeting and EmailMessage rows of every other user are the
\* same before and after, whatever the payload carries; a delivery routed to
\* no user changes no row.
C30_TenantIsolation ==
  [][\A p \in Deliveries :
       Called(p)
       => /\ user'[p] # Null
             => \E u \in USERS : u.id = user'[p] /\ u.bccAddress = parsed[p].bccAddress
          /\ OnlyOwnRows(orgs, orgs', user'[p])
          /\ OnlyOwnRows(contacts, contacts', user'[p])
          /\ OnlyOwnRows(meetings, meetings', user'[p])
          /\ OnlyOwnRows(emailMessages, emailMessages', user'[p])]_vars

\* two users have each stored a message with the same messageId, participant
\* address, domain and title
C30_Witness ==
  /\ \A p \in Deliveries : pc[p] = "done" /\ result[p] = "stored"
  /\ \E a, b \in 1..Len(orgs) :
       orgs[a].userId # orgs[b].userId /\ orgs[a].domain = orgs[b].domain
  /\ \E a, b \in 1..Len(contacts) :
       contacts[a].userId # contacts[b].userId /\ contacts[a].email = contacts[b].email
  /\ \E a, b \in 1..Len(meetings) :
       meetings[a].userId # meetings[b].userId /\ meetings[a].title = meetings[b].title
  /\ \E a, b \in 1..Len(emailMessages) :
       /\ emailMessages[a].userId # emailMessages[b].userId
       /\ emailMessages[a].messageId = emailMessages[b].messageId
====
